---- MODULE Spec2Model ----
(***************************************************************************)
(* Model of the recipe backend (src/app.py): the list-field normalizer,    *)
(* the recipe / like / comment / account handlers over the relational      *)
(* store, and the like toggle run as concurrent requests.                  *)
(*                                                                         *)
(* Text is a sequence of one-character strings, so that trimming,          *)
(* splitting, prefix tests and parsing are computed, not assumed.          *)
(***************************************************************************)
EXTENDS Integers, Sequences, FiniteSets, TLC

(***************************************************************************)
(* Bounds of the model.                                                    *)
(***************************************************************************)
MaxLen == 3
MaxItems == 2
MaxUsers == 2
MaxRecipes == 2
MaxLikes == 2
MaxComments == 1
MaxProcs == 2

(***************************************************************************)
(* Python values as they reach the handlers: None, str, int, list.         *)
(***************************************************************************)
Null == [t |-> "null", s |-> <<>>, n |-> 0, v |-> <<>>]
Str(chars) == [t |-> "str", s |-> chars, n |-> 0, v |-> <<>>]
Int_(k) == [t |-> "int", s |-> <<>>, n |-> k, v |-> <<>>]
List(items) == [t |-> "list", s |-> <<>>, n |-> 0, v |-> items]
\* a constant of the json module (null/true/false/NaN/Infinity), kept by its str()
Lit(chars) == [t |-> "lit", s |-> chars, n |-> 0, v |-> <<>>]

NL == "\n"
QUOTE == "\""
BSLASH == "\\"
APOS == "'"

Digits == {"0", "1", "2", "3", "4", "5", "6", "7", "8", "9"}
DigitVal(c) == CASE c = "0" -> 0 [] c = "1" -> 1 [] c = "2" -> 2 [] c = "3" -> 3
                 [] c = "4" -> 4 [] c = "5" -> 5 [] c = "6" -> 6 [] c = "7" -> 7
                 [] c = "8" -> 8 [] c = "9" -> 9
DigitChar(d) == <<"0", "1", "2", "3", "4", "5", "6", "7", "8", "9">>[d + 1]

IsWs(c) == c \in {" ", NL, "\t", "\r"}

RECURSIVE LStrip(_)
LStrip(s) == IF s = <<>> THEN s
             ELSE IF IsWs(Head(s)) THEN LStrip(Tail(s)) ELSE s

RECURSIVE RStrip(_)
RStrip(s) == IF s = <<>> THEN s
             ELSE IF IsWs(s[Len(s)]) THEN RStrip(SubSeq(s, 1, Len(s) - 1)) ELSE s

\* str.strip()
Strip(s) == RStrip(LStrip(s))

\* str.replace(old, new) for a one-character old and new
ReplaceChar(s, old, new) == [i \in 1..Len(s) |-> IF s[i] = old THEN new ELSE s[i]]

\* str.split(sep) for a one-character sep: always at least one piece
RECURSIVE SplitFrom(_, _, _, _)
SplitFrom(s, sep, i, cur) ==
    IF i > Len(s) THEN <<cur>>
    ELSE IF s[i] = sep THEN <<cur>> \o SplitFrom(s, sep, i + 1, <<>>)
    ELSE SplitFrom(s, sep, i + 1, Append(cur, s[i]))
Split(s, sep) == SplitFrom(s, sep, 1, <<>>)

\* s.startswith(p)
StartsWith(s, p) == Len(s) >= Len(p) /\ SubSeq(s, 1, Len(p)) = p

RECURSIVE NatToStr(_)
NatToStr(k) == IF k < 10 THEN <<DigitChar(k)>>
               ELSE Append(NatToStr(k \div 10), DigitChar(k % 10))
\* str(int)
IntToStr(k) == IF k < 0 THEN <<"-">> \o NatToStr(0 - k) ELSE NatToStr(k)

RECURSIVE DigitsVal(_, _)
DigitsVal(s, acc) == IF s = <<>> THEN acc
                     ELSE DigitsVal(Tail(s), acc * 10 + DigitVal(Head(s)))

AllDigits(s) == s # <<>> /\ \A i \in 1..Len(s) : s[i] \in Digits

\* int(str): surrounding whitespace and one sign are accepted, then digits only
IntOfStr(raw) ==
    LET s == Strip(raw)
        signed == s # <<>> /\ Head(s) \in {"-", "+"}
        body == IF signed THEN Tail(s) ELSE s
    IN  IF AllDigits(body)
        THEN [ok |-> TRUE,
              n |-> IF signed /\ Head(s) = "-" THEN 0 - DigitsVal(body, 0)
                    ELSE DigitsVal(body, 0)]
        ELSE [ok |-> FALSE, n |-> 0]

\* bool(x) as used by `x or default`
Truthy(x) == CASE x.t = "null" -> FALSE
               [] x.t = "str" -> x.s # <<>>
               [] x.t = "int" -> x.n # 0
               [] x.t = "list" -> x.v # <<>>
               [] x.t = "lit" -> x.s \notin {<<"N","o","n","e">>, <<"F","a","l","s","e">>}

(***************************************************************************)
(* str() and repr() of the values json.loads can produce.                  *)
(***************************************************************************)
RECURSIVE EscapeRepr(_, _)
EscapeRepr(s, q) ==
    IF s = <<>> THEN <<>>
    ELSE LET c == Head(s)
             e == CASE c = BSLASH -> <<BSLASH, BSLASH>>
                    [] c = NL -> <<BSLASH, "n">>
                    [] c = "\t" -> <<BSLASH, "t">>
                    [] c = "\r" -> <<BSLASH, "r">>
                    [] c = q -> <<BSLASH, q>>
                    [] OTHER -> <<c>>
         IN  e \o EscapeRepr(Tail(s), q)

HasChar(s, c) == \E i \in 1..Len(s) : s[i] = c

ReprStr(s) ==
    LET q == IF HasChar(s, APOS) /\ ~HasChar(s, QUOTE) THEN QUOTE ELSE APOS
    IN  <<q>> \o EscapeRepr(s, q) \o <<q>>

RECURSIVE PyRepr(_)
RECURSIVE ReprItems(_, _)
ReprItems(items, i) ==
    IF i > Len(items) THEN <<>>
    ELSE (IF i > 1 THEN <<",", " ">> ELSE <<>>) \o PyRepr(items[i]) \o ReprItems(items, i + 1)
PyRepr(x) == CASE x.t = "str" -> ReprStr(x.s)
               [] x.t = "int" -> IntToStr(x.n)
               [] x.t = "null" -> <<"N","o","n","e">>
               [] x.t = "lit" -> x.s
               [] x.t = "list" -> <<"[">> \o ReprItems(x.v, 1) \o <<"]">>

\* str(x)
PyStr(x) == IF x.t = "str" THEN x.s ELSE PyRepr(x)

(***************************************************************************)
(* json.loads on text over the model's alphabet: arrays, strings with the  *)
(* escapes \" \\ \/ \n \t \r, integers, and the named constants.  Objects, *)
(* fractions and exponents need characters outside the alphabet.           *)
(***************************************************************************)
Fail == [ok |-> FALSE, val |-> Null, pos |-> 0]
Ok(val, pos) == [ok |-> TRUE, val |-> val, pos |-> pos]

RECURSIVE SkipWs(_, _)
SkipWs(s, i) == IF i <= Len(s) /\ IsWs(s[i]) THEN SkipWs(s, i + 1) ELSE i

\* the body of a string, from the character after the opening quote
RECURSIVE ScanString(_, _, _)
ScanString(s, i, acc) ==
    IF i > Len(s) THEN Fail
    ELSE IF s[i] = QUOTE THEN Ok(Str(acc), i + 1)
    ELSE IF s[i] = BSLASH THEN
        IF i + 1 > Len(s) THEN Fail
        ELSE LET e == s[i + 1]
             IN  CASE e = QUOTE -> ScanString(s, i + 2, Append(acc, QUOTE))
                   [] e = BSLASH -> ScanString(s, i + 2, Append(acc, BSLASH))
                   [] e = "/" -> ScanString(s, i + 2, Append(acc, "/"))
                   [] e = "n" -> ScanString(s, i + 2, Append(acc, NL))
                   [] e = "t" -> ScanString(s, i + 2, Append(acc, "\t"))
                   [] e = "r" -> ScanString(s, i + 2, Append(acc, "\r"))
                   [] OTHER -> Fail
    ELSE IF s[i] \in {NL, "\t", "\r"} THEN Fail   \* strict: no raw control characters
    ELSE ScanString(s, i + 1, Append(acc, s[i]))

RECURSIVE DigitsEnd(_, _)
DigitsEnd(s, i) == IF i <= Len(s) /\ s[i] \in Digits THEN DigitsEnd(s, i + 1) ELSE i

\* -?(0|[1-9][0-9]*)
ScanNumber(s, i) ==
    LET neg == s[i] = "-"
        d == IF neg THEN i + 1 ELSE i
    IN  IF d > Len(s) \/ s[d] \notin Digits THEN Fail
        ELSE LET e == IF s[d] = "0" THEN d + 1 ELSE DigitsEnd(s, d)
                 k == DigitsVal(SubSeq(s, d, e - 1), 0)
             IN  Ok(Int_(IF neg THEN 0 - k ELSE k), e)

Word(s, i, w) == i + Len(w) - 1 <= Len(s) /\ SubSeq(s, i, i + Len(w) - 1) = w

ScanLiteral(s, i) ==
    CASE Word(s, i, <<"n","u","l","l">>) -> Ok(Null, i + 4)
      [] Word(s, i, <<"t","r","u","e">>) -> Ok(Lit(<<"T","r","u","e">>), i + 4)
      [] Word(s, i, <<"f","a","l","s","e">>) -> Ok(Lit(<<"F","a","l","s","e">>), i + 5)
      [] Word(s, i, <<"N","a","N">>) -> Ok(Lit(<<"n","a","n">>), i + 3)
      [] Word(s, i, <<"I","n","f","i","n","i","t","y">>) -> Ok(Lit(<<"i","n","f">>), i + 8)
      [] Word(s, i, <<"-","I","n","f","i","n","i","t","y">>) -> Ok(Lit(<<"-","i","n","f">>), i + 9)
      [] OTHER -> Fail

RECURSIVE ScanOnce(_, _)
RECURSIVE ScanArray(_, _, _)
\* the elements of an array, from the position of a value
ScanArray(s, i, acc) ==
    LET r == ScanOnce(s, i)
    IN  IF ~r.ok THEN Fail
        ELSE LET j == SkipWs(s, r.pos)
                 items == Append(acc, r.val)
             IN  IF j > Len(s) THEN Fail
                 ELSE IF s[j] = "]" THEN Ok(List(items), j + 1)
                 ELSE IF s[j] = "," THEN ScanArray(s, SkipWs(s, j + 1), items)
                 ELSE Fail
ScanOnce(s, i) ==
    IF i > Len(s) THEN Fail
    ELSE IF s[i] = QUOTE THEN ScanString(s, i + 1, <<>>)
    ELSE IF s[i] = "[" THEN
        LET j == SkipWs(s, i + 1)
        IN  IF j <= Len(s) /\ s[j] = "]" THEN Ok(List(<<>>), j + 1)
            ELSE ScanArray(s, j, <<>>)
    ELSE IF Word(s, i, <<"-","I">>) THEN ScanLiteral(s, i)
    ELSE IF s[i] = "-" \/ s[i] \in Digits THEN ScanNumber(s, i)
    ELSE ScanLiteral(s, i)

\* json.loads(s): [ok, val]; ok = FALSE stands for the raised JSONDecodeError
json_loads(s) ==
    LET r == ScanOnce(s, SkipWs(s, 1))
    IN  IF r.ok /\ SkipWs(s, r.pos) = Len(s) + 1 THEN r ELSE Fail

(***************************************************************************)
(* parse_list_field                                                        *)
(***************************************************************************)
RECURSIVE StripItems(_, _)
\* [str(x).strip() for x in items if str(x).strip()]
StripItems(items, i) ==
    IF i > Len(items) THEN <<>>
    ELSE LET t == Strip(PyStr(items[i]))
         IN  (IF t # <<>> THEN <<t>> ELSE <<>>) \o StripItems(items, i + 1)

RECURSIVE StripLines(_, _)
StripLines(lines, i) ==
    IF i > Len(lines) THEN <<>>
    ELSE LET t == Strip(lines[i])
         IN  (IF t # <<>> THEN <<t>> ELSE <<>>) \o StripLines(lines, i + 1)

\* the fallback without the trimming of each piece
SplitLinesUntrimmed(s) ==
    SelectSeq(Split(ReplaceChar(s, ",", NL), NL), LAMBDA t : t # << >>)

\* the fallback of parse_list_field: split by newlines / commas
SplitLines(s) == StripLines(Split(ReplaceChar(s, ",", NL), NL), 1)

\* whether the structured parse raises out of parse_list_field
ParseRaises(parsed) == FALSE

\* [raised, out]: out is the returned list
parse_list_field(value) ==
    IF value.t = "null" THEN [raised |-> FALSE, out |-> <<>>]
    ELSE IF value.t = "list" THEN [raised |-> FALSE, out |-> StripItems(value.v, 1)]
    ELSE IF value.t = "str" THEN
        LET s == Strip(value.s)
        IN  IF s = <<>> THEN [raised |-> FALSE, out |-> <<>>]
            ELSE LET parsed == json_loads(s)
                 IN  IF parsed.ok /\ parsed.val.t = "list"
                     THEN [raised |-> FALSE, out |-> StripItems(parsed.val.v, 1)]
                     ELSE IF ~parsed.ok /\ ParseRaises(parsed)
                     THEN [raised |-> TRUE, out |-> <<>>]
                     ELSE [raised |-> FALSE, out |-> SplitLines(s)]
    ELSE [raised |-> FALSE, out |-> <<>>]


(***************************************************************************)
(* State: the tables, the upload folder, the id sequences; the last        *)
(* request with its response; the in-flight like requests; the normalizer  *)
(* call under test.                                                        *)
(***************************************************************************)
VARIABLES users, recipes, likeRows, comments, assets, seqs, last,
          procs, base, nin, nout, npc

vars == <<users, recipes, likeRows, comments, assets, seqs, last,
          procs, base, nin, nout, npc>>
dbvars == <<users, recipes, likeRows, comments, assets, seqs, last>>
procvars == <<procs, base>>
normvars == <<nin, nout, npc>>

Procs == 1..MaxProcs

Get(data, k) == IF k \in DOMAIN data THEN data[k] ELSE Null
\* x or d
OrDefault(x, d) == IF Truthy(x) THEN x ELSE d
Empty == Str(<<>>)

\* int(x)
PyInt(x) == CASE x.t = "int" -> [ok |-> TRUE, n |-> x.n]
              [] x.t = "str" -> IntOfStr(x.s)
              [] x.t = "lit" /\ x.s = <<"T","r","u","e">> -> [ok |-> TRUE, n |-> 1]
              [] OTHER -> [ok |-> FALSE, n |-> 0]
\* int(x or 0)
IntOrZero(x) == PyInt(OrDefault(x, Int_(0)))

\* (x or "").strip(): [ok, s]; ok = FALSE is the AttributeError of a non-string
StripOrEmpty(x) ==
    LET y == OrDefault(x, Empty)
    IN  IF y.t = "str" THEN [ok |-> TRUE, s |-> Strip(y.s)] ELSE [ok |-> FALSE, s |-> <<>>]

Resp(code, body) == [code |-> code, body |-> body]
NoPre == [valid |-> FALSE, likes |-> 0, had |-> FALSE]
Req(op, rid, data, resp) ==
    [op |-> op, rid |-> rid, data |-> data, resp |-> resp, pre |-> NoPre, prepre |-> NoPre]

UPLOADS == <<"/", "u", "p", "l", "o", "a", "d", "s", "/">>
ALLOWED_EXTENSIONS == {<<"p","n","g">>, <<"j","p","g">>, <<"j","p","e","g">>,
                       <<"g","i","f">>, <<"w","e","b","p">>, <<"a","v","i","f">>}

\* str.lower() on the letters the model's file names use
LowerChar(c) == CASE c = "P" -> "p" [] c = "N" -> "n" [] c = "G" -> "g" [] OTHER -> c
Lower(s) == [i \in 1..Len(s) |-> LowerChar(s[i])]

allowed_file(filename) ==
    /\ HasChar(filename, ".")
    /\ LET parts == Split(filename, ".")
       IN  Lower(parts[Len(parts)]) \in ALLOWED_EXTENSIONS

\* werkzeug's secure_filename on names of letters, digits, '.', '_' and '-':
\* path separators and blanks never survive
secure_filename(filename) == SelectSeq(filename, LAMBDA c : c \notin {"/", BSLASH, " ", NL})

NoFile == [filename |-> <<>>]

(***************************************************************************)
(* POST /recipes                                                           *)
(***************************************************************************)
\* the likes of a new recipe: int(data.get("likes") or 0), 0 when that raises
CreateLikes(data) == LET r == IntOrZero(Get(data, "likes")) IN IF r.ok THEN r.n ELSE 0

add_recipe(data, file) ==
    LET title == StripOrEmpty(Get(data, "title")).s
        category == StripOrEmpty(Get(data, "category")).s
        author == StripOrEmpty(Get(data, "author")).s
        pt == IntOrZero(Get(data, "prepTime"))
        rt == IntOrZero(Get(data, "rating"))
        url == StripOrEmpty(Get(data, "image")).s
        hasFile == file.filename # <<>>
        unique == IntToStr(seqs.uuid) \o <<"_">> \o secure_filename(file.filename)
        rid == seqs.recipe
        recipe == [title |-> title,
                   category |-> category,
                   prepTime |-> IF pt.ok THEN pt.n ELSE 0,
                   image |-> IF hasFile THEN UPLOADS \o unique ELSE url,
                   ingredients |-> parse_list_field(Get(data, "ingredients")).out,
                   steps |-> parse_list_field(Get(data, "steps")).out,
                   likes |-> CreateLikes(data),
                   author |-> author,
                   rating |-> IF rt.ok THEN rt.n ELSE 0]
    IN  IF title = <<>> THEN
            /\ last' = Req("create", 0, data, Resp(400, "title is required"))
            /\ UNCHANGED <<users, recipes, likeRows, comments, assets, seqs>>
        ELSE IF hasFile /\ ~allowed_file(file.filename) THEN
            /\ last' = Req("create", 0, data, Resp(400, "Invalid file type"))
            /\ UNCHANGED <<users, recipes, likeRows, comments, assets, seqs>>
        ELSE
            /\ seqs.recipe <= MaxRecipes
            /\ recipes' = (rid :> recipe) @@ recipes
            /\ assets' = IF hasFile THEN assets \cup {unique} ELSE assets
            /\ seqs' = [seqs EXCEPT !.recipe = @ + 1,
                                    !.uuid = IF hasFile THEN @ + 1 ELSE @]
            /\ last' = Req("create", rid, data, Resp(201, "ok"))
            /\ UNCHANGED <<users, likeRows, comments>>

(***************************************************************************)
(* PUT /recipes/<rid>: each field as [ok, val]; ok = FALSE is an exception *)
(* that leaves the handler before the commit                               *)
(***************************************************************************)
Kept(val) == [ok |-> TRUE, val |-> val]
Raised == [ok |-> FALSE, val |-> <<>>]

EditTitle(recipe, data) ==
    IF "title" \notin DOMAIN data THEN Kept(recipe.title)
    ELSE LET t == StripOrEmpty(data.title)
         IN  IF ~t.ok THEN Raised
             ELSE Kept(IF t.s # <<>> THEN t.s ELSE recipe.title)

\* category assigned whether or not the key is present
EditCategoryAlways(recipe, data) ==
    LET t == StripOrEmpty(Get(data, "category"))
    IN  IF ~t.ok THEN Raised ELSE Kept(t.s)

EditCategory(recipe, data) ==
    IF "category" \notin DOMAIN data THEN Kept(recipe.category)
    ELSE LET t == StripOrEmpty(data.category)
         IN  IF ~t.ok THEN Raised ELSE Kept(t.s)

\* prepTime set to 0 when int() raises, as rating is
EditPrepTimeReset(recipe, data) ==
    IF "prepTime" \notin DOMAIN data THEN Kept(recipe.prepTime)
    ELSE LET r == IntOrZero(data.prepTime)
         IN  Kept(IF r.ok THEN r.n ELSE 0)

EditPrepTime(recipe, data) ==
    IF "prepTime" \notin DOMAIN data THEN Kept(recipe.prepTime)
    ELSE LET r == IntOrZero(data.prepTime)
         IN  Kept(IF r.ok THEN r.n ELSE recipe.prepTime)

EditImage(recipe, data) ==
    IF "image" \notin DOMAIN data THEN Kept(recipe.image)
    ELSE LET t == StripOrEmpty(data.image)
         IN  IF ~t.ok THEN Raised ELSE Kept(t.s)

EditIngredients(recipe, data) ==
    IF "ingredients" \notin DOMAIN data THEN Kept(recipe.ingredients)
    ELSE Kept(parse_list_field(data.ingredients).out)

EditSteps(recipe, data) ==
    IF "steps" \notin DOMAIN data THEN Kept(recipe.steps)
    ELSE Kept(parse_list_field(data.steps).out)

EditRating(recipe, data) ==
    IF "rating" \notin DOMAIN data THEN Kept(recipe.rating)
    ELSE LET r == IntOrZero(data.rating)
         IN  Kept(IF r.ok THEN r.n ELSE 0)

edit_recipe(rid, data) ==
    IF rid \notin DOMAIN recipes THEN
        /\ last' = Req("edit", rid, data, Resp(404, "Recipe not found"))
        /\ UNCHANGED <<users, recipes, likeRows, comments, assets, seqs>>
    ELSE
        LET r == recipes[rid]
            title == EditTitle(r, data)
            category == EditCategory(r, data)
            prepTime == EditPrepTime(r, data)
            image == EditImage(r, data)
            ingredients == EditIngredients(r, data)
            steps == EditSteps(r, data)
            rating == EditRating(r, data)
        IN  IF title.ok /\ category.ok /\ prepTime.ok /\ image.ok
               /\ ingredients.ok /\ steps.ok /\ rating.ok
            THEN
                /\ recipes' = [recipes EXCEPT ![rid] =
                                  [r EXCEPT !.title = title.val,
                                            !.category = category.val,
                                            !.prepTime = prepTime.val,
                                            !.image = image.val,
                                            !.ingredients = ingredients.val,
                                            !.steps = steps.val,
                                            !.rating = rating.val]]
                /\ last' = Req("edit", rid, data, Resp(200, "updated"))
                /\ UNCHANGED <<users, likeRows, comments, assets, seqs>>
            ELSE
                /\ last' = Req("edit", rid, data, Resp(500, "error"))
                /\ UNCHANGED <<users, recipes, likeRows, comments, assets, seqs>>

(***************************************************************************)
(* DELETE /recipes/<rid>                                                   *)
(***************************************************************************)
\* rows of like and comments whose recipes.id foreign key points at rid
Referenced(rid) ==
    \/ \E l \in likeRows : l.recipe_id = rid
    \/ \E c \in comments : c.recipe_id = rid

delete_recipe(rid) ==
    IF rid \notin DOMAIN recipes THEN
        /\ last' = Req("delete", rid, <<>>, Resp(404, "Recipe not found"))
        /\ UNCHANGED <<users, recipes, likeRows, comments, assets, seqs>>
    ELSE
        LET image == recipes[rid].image
            isUpload == image # <<>> /\ StartsWith(image, UPLOADS)
            filename == SubSeq(image, Len(UPLOADS) + 1, Len(image))
        IN  /\ assets' = IF isUpload THEN assets \ {filename} ELSE assets
            /\ IF Referenced(rid)
               THEN \* the DELETE violates the foreign key: the commit raises
                    /\ last' = Req("delete", rid, <<>>, Resp(500, "error"))
                    /\ UNCHANGED recipes
               ELSE /\ recipes' = [i \in DOMAIN recipes \ {rid} |-> recipes[i]]
                    /\ last' = Req("delete", rid, <<>>, Resp(200, "deleted"))
            /\ UNCHANGED <<users, likeRows, comments, seqs>>


(***************************************************************************)
(* POST /recipes/<rid>/like, in the three steps a request takes: resolve   *)
(* user and recipe, look for the Like row, then write and commit.          *)
(***************************************************************************)
\* lines 290-296: [body, uid, likes]; body = "" when both rows were found
LikeBegin(us, rs, rid, username) ==
    LET found == {u \in us : username.t = "str" /\ u.username = username.s}
    IN  IF found = {} THEN [body |-> "User not found", uid |-> 0, likes |-> 0]
        ELSE IF rid \notin DOMAIN rs THEN [body |-> "Recipe not found", uid |-> 0, likes |-> 0]
        ELSE [body |-> "", uid |-> (CHOOSE u \in found : TRUE).id, likes |-> rs[rid].likes]

\* line 299: the ids .first() may return; {0} when no row matches
LikeCheck(rows, uid, rid) ==
    LET m == {l.id : l \in {x \in rows : x.user_id = uid /\ x.recipe_id = rid}}
    IN  IF m = {} THEN {0} ELSE m

\* line 304
Unliked(likes) == IF likes - 1 > 0 THEN likes - 1 ELSE 0

\* lines 301-313 on db = [recipes, likeRows, likeSeq], with the request's own
\* view loc = [rid, uid, likes, existing]: the counter is written from loc.likes
LikeCommit(db, loc) ==
    IF loc.existing # 0 THEN
        [recipes |-> [db.recipes EXCEPT ![loc.rid].likes = Unliked(loc.likes)],
         likeRows |-> {l \in db.likeRows : l.id # loc.existing},
         likeSeq |-> db.likeSeq,
         body |-> "unliked"]
    ELSE
        [recipes |-> [db.recipes EXCEPT ![loc.rid].likes = loc.likes + 1],
         likeRows |-> db.likeRows \cup
                      {[id |-> db.likeSeq, user_id |-> loc.uid, recipe_id |-> loc.rid]},
         likeSeq |-> db.likeSeq + 1,
         body |-> "liked"]

\* one whole request on db: the set of results (one per row .first() may pick)
Toggle(us, db, rid, username) ==
    LET b == LikeBegin(us, db.recipes, rid, username)
    IN  IF b.body # "" THEN {[recipes |-> db.recipes, likeRows |-> db.likeRows,
                              likeSeq |-> db.likeSeq, body |-> b.body]}
        ELSE {LikeCommit(db, [rid |-> rid, uid |-> b.uid, likes |-> b.likes, existing |-> e]) :
                 e \in LikeCheck(db.likeRows, b.uid, rid)}

CurrentDb == [recipes |-> recipes, likeRows |-> likeRows, likeSeq |-> seqs.like]

SamePairAsLast(rid, username) ==
    last.op = "like" /\ last.resp.code = 200 /\ last.rid = rid /\ last.data = username

like_recipe(rid, username) ==
    \E d \in Toggle(users, CurrentDb, rid, username) :
        IF d.body \in {"User not found", "Recipe not found"} THEN
            /\ last' = Req("like", rid, username, Resp(404, d.body))
            /\ UNCHANGED <<users, recipes, likeRows, comments, assets, seqs>>
        ELSE
            LET uid == LikeBegin(users, recipes, rid, username).uid
                pre == [valid |-> TRUE, likes |-> recipes[rid].likes,
                        had |-> LikeCheck(likeRows, uid, rid) # {0}]
            IN  /\ d.likeSeq <= MaxLikes + 1
                /\ recipes' = d.recipes
                /\ likeRows' = d.likeRows
                /\ seqs' = [seqs EXCEPT !.like = d.likeSeq]
                /\ last' = [Req("like", rid, username, Resp(200, d.body)) EXCEPT
                               !.pre = pre,
                               !.prepre = IF SamePairAsLast(rid, username)
                                          THEN last.pre ELSE NoPre]
                /\ UNCHANGED <<users, comments, assets>>

(***************************************************************************)
(* POST /comments/<recipe_id>                                              *)
(***************************************************************************)
add_comment(recipe_id, data) ==
    LET uidv == Get(data, "user_id")
        content == Get(data, "content")
        uid == PyInt(uidv)
    IN  IF ~Truthy(uidv) \/ ~Truthy(content) THEN
            /\ last' = Req("comment", recipe_id, data, Resp(400, "Missing fields"))
            /\ UNCHANGED <<users, recipes, likeRows, comments, assets, seqs>>
        ELSE IF ~uid.ok THEN
            /\ last' = Req("comment", recipe_id, data, Resp(500, "error"))
            /\ UNCHANGED <<users, recipes, likeRows, comments, assets, seqs>>
        ELSE
            /\ seqs.comment <= MaxComments
            /\ seqs' = [seqs EXCEPT !.comment = @ + 1]
            /\ IF (\E u \in users : u.id = uid.n) /\ recipe_id \in DOMAIN recipes
               THEN /\ comments' = comments \cup
                           {[id |-> seqs.comment, user_id |-> uid.n,
                             recipe_id |-> recipe_id, content |-> PyStr(content)]}
                    /\ last' = Req("comment", recipe_id, data, Resp(200, "ok"))
               ELSE \* the INSERT violates a foreign key: the commit raises
                    /\ last' = Req("comment", recipe_id, data, Resp(500, "error"))
                    /\ UNCHANGED comments
            /\ UNCHANGED <<users, recipes, likeRows, assets>>

(***************************************************************************)
(* POST /register                                                          *)
(***************************************************************************)
\* the existence check left out
UserExistsNever(username) == FALSE

\* line 359
UserExists(username) == \E u \in users : u.username = username

register(data) ==
    LET username == StripOrEmpty(Get(data, "username"))
        password == StripOrEmpty(Get(data, "password"))
    IN  IF ~username.ok \/ ~password.ok THEN
            /\ last' = Req("register", 0, data, Resp(500, "error"))
            /\ UNCHANGED <<users, recipes, likeRows, comments, assets, seqs>>
        ELSE IF username.s = <<>> \/ password.s = <<>> THEN
            /\ last' = Req("register", 0, data, Resp(400, "username and password required"))
            /\ UNCHANGED <<users, recipes, likeRows, comments, assets, seqs>>
        ELSE IF UserExists(username.s) THEN
            /\ last' = Req("register", 0, data, Resp(400, "User exists"))
            /\ UNCHANGED <<users, recipes, likeRows, comments, assets, seqs>>
        ELSE IF \E u \in users : u.username = username.s THEN
            \* the INSERT violates unique=True on users.username: the commit raises
            /\ last' = Req("register", 0, data, Resp(500, "error"))
            /\ UNCHANGED <<users, recipes, likeRows, comments, assets, seqs>>
        ELSE
            /\ seqs.user <= MaxUsers
            /\ users' = users \cup
                   {[id |-> seqs.user, username |-> username.s, password |-> password.s,
                     role |-> PyStr(OrDefault(Get(data, "role"), Str(<<"u","s","e","r">>)))]}
            /\ seqs' = [seqs EXCEPT !.user = @ + 1]
            /\ last' = Req("register", 0, data, Resp(200, "registered"))
            /\ UNCHANGED <<recipes, likeRows, comments, assets>>

(***************************************************************************)
(* Like requests in flight: each process serves one request.               *)
(***************************************************************************)
Idle == [pc |-> "idle", rid |-> 0, username |-> Null, uid |-> 0, likes |-> 0, existing |-> 0]
NoBase == [active |-> FALSE, recipes |-> <<>>, likeRows |-> {}, likeSeq |-> 0]

AllIdle == \A p \in Procs : procs[p].pc = "idle"
AllDone == \A p \in Procs : procs[p].pc = "done"

Begin(p, rid, username) ==
    /\ procs[p].pc = "idle"
    /\ LET b == LikeBegin(users, recipes, rid, username)
       IN  procs' = [procs EXCEPT ![p] =
                        [pc |-> IF b.body = "" THEN "begun" ELSE "done",
                         rid |-> rid, username |-> username,
                         uid |-> b.uid, likes |-> b.likes, existing |-> 0]]
    /\ base' = IF AllIdle THEN [active |-> TRUE, recipes |-> recipes,
                                likeRows |-> likeRows, likeSeq |-> seqs.like]
               ELSE base
    /\ UNCHANGED <<dbvars, normvars>>

CheckLike(p) ==
    /\ procs[p].pc = "begun"
    /\ \E e \in LikeCheck(likeRows, procs[p].uid, procs[p].rid) :
           procs' = [procs EXCEPT ![p].pc = "checked", ![p].existing = e]
    /\ UNCHANGED <<dbvars, base, normvars>>

Commit(p) ==
    /\ procs[p].pc = "checked"
    /\ LET d == LikeCommit(CurrentDb, procs[p])
       IN  /\ d.likeSeq <= MaxLikes + 1
           /\ recipes' = d.recipes
           /\ likeRows' = d.likeRows
           /\ seqs' = [seqs EXCEPT !.like = d.likeSeq]
           /\ last' = Req("like", procs[p].rid, procs[p].username, Resp(200, d.body))
    /\ procs' = [procs EXCEPT ![p].pc = "done"]
    /\ UNCHANGED <<users, comments, assets, base, normvars>>

(***************************************************************************)
(* One call of parse_list_field.                                           *)
(***************************************************************************)
Normalize ==
    /\ npc = "call"
    /\ nout' = parse_list_field(nin.value)
    /\ npc' = "done"
    /\ UNCHANGED <<dbvars, procvars, nin>>


(***************************************************************************)
(* Requests.                                                               *)
(***************************************************************************)
TA == <<"a">>
TB == <<"b">>
PNG == <<"f", ".", "P", "N", "G">>
EXE == <<"f", ".", "e", "x", "e">>
STORED == UPLOADS \o <<"1", "_">> \o PNG
Rids == 1..(MaxRecipes + 1)
Plain == [data |-> [title |-> Str(TA)], file |-> NoFile]
UserA == [username |-> Str(TA), password |-> Str(<<"p">>)]
UserB == [username |-> Str(TB), password |-> Str(<<"p">>), role |-> Null]
CommentBy1 == [user_id |-> Int_(1), content |-> Str(<<"c">>)]

InitDb ==
    /\ users = {}
    /\ recipes = << >>
    /\ likeRows = {}
    /\ comments = {}
    /\ assets = {}
    /\ seqs = [user |-> 1, recipe |-> 1, like |-> 1, comment |-> 1, uuid |-> 1]
    /\ last = Req("none", 0, << >>, Resp(0, ""))
InitProcs ==
    /\ procs = [p \in Procs |-> Idle]
    /\ base = NoBase
InitNorm ==
    /\ nin = [kind |-> "none", logical |-> << >>, value |-> Null]
    /\ nout = [raised |-> FALSE, out |-> << >>]
    /\ npc = "off"

Init == InitDb /\ InitProcs /\ InitNorm

RegisterOf(reqs) == \E d \in reqs : register(d) /\ UNCHANGED <<procvars, normvars>>
AddRecipeOf(reqs) == \E c \in reqs : add_recipe(c.data, c.file) /\ UNCHANGED <<procvars, normvars>>
EditRecipeOf(reqs) ==
    \E rid \in Rids, d \in reqs : edit_recipe(rid, d) /\ UNCHANGED <<procvars, normvars>>
DeleteRecipe == \E rid \in Rids : delete_recipe(rid) /\ UNCHANGED <<procvars, normvars>>
LikeRecipeOf(rids, names) ==
    \E rid \in rids, u \in names : like_recipe(rid, u) /\ UNCHANGED <<procvars, normvars>>
AddCommentOf(rids, reqs) ==
    \E rid \in rids, d \in reqs : add_comment(rid, d) /\ UNCHANGED <<procvars, normvars>>

(***************************************************************************)
(* Spec: the six handlers called one after the other, with the requests    *)
(* that move the like counter.                                             *)
(***************************************************************************)
LikesCreates ==
    { Plain,
      [data |-> [title |-> Str(TA), likes |-> Str(<<"2">>)], file |-> NoFile],
      [data |-> [title |-> Str(TA), likes |-> Str(<<"-", "1">>)], file |-> NoFile],
      [data |-> [title |-> Str(<<" ">>), likes |-> Str(<<"x">>)], file |-> NoFile] }
LikeNames == {Str(TA), Str(TB), Null}

Next ==
    \/ RegisterOf({UserA, UserB})
    \/ AddRecipeOf(LikesCreates)
    \/ EditRecipeOf({[title |-> Str(TB)]})
    \/ DeleteRecipe
    \/ LikeRecipeOf(Rids, LikeNames)
    \/ AddCommentOf({1}, {CommentBy1})

Spec == Init /\ [][Next]_vars

(***************************************************************************)
(* SpecDelete: the same handlers, with the requests that move images and   *)
(* stored assets.                                                          *)
(***************************************************************************)
DeleteCreates ==
    { Plain,
      [data |-> [title |-> Str(TA)], file |-> [filename |-> PNG]],
      [data |-> [title |-> Str(TA)], file |-> [filename |-> EXE]],
      [data |-> [title |-> Str(TA), image |-> Str(<<" ", "h">>)], file |-> NoFile] }

NextDelete ==
    \/ RegisterOf({UserA})
    \/ AddRecipeOf(DeleteCreates)
    \/ EditRecipeOf({[image |-> Str(STORED)]})
    \/ DeleteRecipe
    \/ LikeRecipeOf({1}, {Str(TA)})
    \/ AddCommentOf({2}, {CommentBy1})

SpecDelete == Init /\ [][NextDelete]_vars

(***************************************************************************)
(* SpecAccounts: registration with every shape of request.                 *)
(***************************************************************************)
RegisterReqs ==
    { UserA,
      [username |-> Str(<<" ", "a", " ">>), password |-> Str(<<"q">>), role |-> Str(<<"x">>)],
      [username |-> Str(TA), password |-> Str(<<" ">>)],
      UserB,
      [username |-> Str(<<"c">>), password |-> Str(<<"p">>)],
      [username |-> Int_(5), password |-> Str(<<"p">>)],
      [username |-> Str(TA), password |-> Int_(5)],
      [password |-> Str(<<"p">>)] }

NextAccounts ==
    \/ RegisterOf(RegisterReqs)
    \/ AddRecipeOf({Plain})
    \/ LikeRecipeOf({1}, {Str(TA), Str(TB)})
    \/ AddCommentOf({1}, {CommentBy1})

SpecAccounts == Init /\ [][NextAccounts]_vars

(***************************************************************************)
(* SpecEdit: updates of every field, among accounts, likes and comments.   *)
(***************************************************************************)
EditFieldReqs ==
    { << >>,
      [title |-> Str(<<" ", "b">>), category |-> Str(<<"c", " ">>), image |-> Str(<<"h">>),
       ingredients |-> Str(<<"a", ",", "b">>), steps |-> List(<<Str(<<"s">>), Int_(1)>>)],
      [prepTime |-> Int_(7), rating |-> Int_(4)],
      [title |-> Int_(3), category |-> Str(<<"z">>), prepTime |-> Str(<<"x">>)] }

EditCreates ==
    { [data |-> [title |-> Str(TA), prepTime |-> Str(<<"3">>), author |-> Str(<<"w">>)],
       file |-> NoFile] }

NextEdit ==
    \/ RegisterOf({UserA})
    \/ AddRecipeOf(EditCreates)
    \/ EditRecipeOf(EditFieldReqs)
    \/ LikeRecipeOf({1}, {Str(TA)})
    \/ AddCommentOf({1}, {CommentBy1})

SpecEdit == Init /\ [][NextEdit]_vars

(***************************************************************************)
(* SpecNumbers: updates of prepTime and rating with every shape of value.  *)
(***************************************************************************)
NumberReqs ==
    { [category |-> Str(<<"c", " ">>), rating |-> Int_(4)],
      [prepTime |-> Str(<<"x">>), rating |-> Str(<<"x">>)],
      [title |-> Null, prepTime |-> List(<<Int_(1)>>), rating |-> List(<<Int_(1)>>)],
      [prepTime |-> Null, rating |-> Str(<< >>)],
      [prepTime |-> Str(<< >>), rating |-> Null],
      [prepTime |-> Str(<<" ", "5">>)],
      [title |-> Int_(3), prepTime |-> Str(<<"x">>)] }

NextNumbers ==
    \/ AddRecipeOf(EditCreates)
    \/ EditRecipeOf(NumberReqs)
    \/ DeleteRecipe

SpecNumbers == Init /\ [][NextNumbers]_vars

(***************************************************************************)
(* SpecConc: like requests served concurrently.  Accounts, recipes and     *)
(* earlier likes are set up while no request is in flight.                 *)
(***************************************************************************)
Setup ==
    /\ AllIdle
    /\ \/ RegisterOf({UserA, UserB})
       \/ AddRecipeOf({Plain})
       \/ LikeRecipeOf({1}, {Str(TA)})

NextConc ==
    \/ Setup
    \/ \E p \in Procs, rid \in 1..MaxRecipes, u \in {Str(TA), Str(TB)} : Begin(p, rid, u)
    \/ \E p \in Procs : CheckLike(p)
    \/ \E p \in Procs : Commit(p)

SpecConc == Init /\ [][NextConc]_vars

(***************************************************************************)
(* SpecNorm: parse_list_field on one input.  An input is a logical list in *)
(* one of its representations, a raw string, or a value of another type.   *)
(***************************************************************************)
Alpha == {"a", " ", ",", NL, "[", "]", QUOTE, "1"}
ElemAlpha == {"a", " ", ",", NL, "[", "]"}

RECURSIVE SeqsUpTo(_, _)
SeqsUpTo(S, k) == IF k = 0 THEN {<< >>}
                  ELSE LET shorter == SeqsUpTo(S, k - 1)
                       IN  shorter \cup {Append(q, x) : q \in shorter, x \in S}

Elems == {<< >>} \cup {<<c>> : c \in ElemAlpha}
         \cup {<<" ", "a">>, <<"a", " ">>, <<"a", ",">>, <<",", " ">>, <<"[", "]">>, <<"a", NL>>}
Logicals == SeqsUpTo(Elems, MaxItems)

RECURSIVE Join(_, _, _)
Join(L, sep, i) ==
    IF i > Len(L) THEN << >>
    ELSE (IF i > 1 THEN <<sep>> ELSE << >>) \o L[i] \o Join(L, sep, i + 1)

RECURSIVE EscapeJson(_)
EscapeJson(str) ==
    IF str = << >> THEN << >>
    ELSE LET c == Head(str)
             e == CASE c = QUOTE -> <<BSLASH, QUOTE>>
                    [] c = BSLASH -> <<BSLASH, BSLASH>>
                    [] c = NL -> <<BSLASH, "n">>
                    [] OTHER -> <<c>>
         IN  e \o EscapeJson(Tail(str))

\* the JSON-array text of a list of strings
JsonText(L) ==
    <<"[">> \o Join([i \in 1..Len(L) |-> <<QUOTE>> \o EscapeJson(L[i]) \o <<QUOTE>>], ",", 1)
            \o <<"]">>

NormInputs ==
    {[kind |-> "native", logical |-> L, value |-> List([i \in 1..Len(L) |-> Str(L[i])])] :
        L \in Logicals}
    \cup {[kind |-> "json", logical |-> L, value |-> Str(JsonText(L))] : L \in Logicals}
    \cup {[kind |-> "comma", logical |-> L, value |-> Str(Join(L, ",", 1))] : L \in Logicals}
    \cup {[kind |-> "newline", logical |-> L, value |-> Str(Join(L, NL, 1))] : L \in Logicals}
    \cup {[kind |-> "raw", logical |-> << >>, value |-> Str(r)] : r \in SeqsUpTo(Alpha, MaxLen)}
    \cup {[kind |-> "absent", logical |-> << >>, value |-> Null],
          [kind |-> "other", logical |-> << >>, value |-> Int_(5)],
          [kind |-> "mixed", logical |-> << >>,
           value |-> List(<<Int_(1), Null, Str(<<" ", "a">>), Str(<<" ">>), List(<<Str(TA)>>)>>)]}

InitCall ==
    /\ nin \in NormInputs
    /\ nout = [raised |-> FALSE, out |-> << >>]
    /\ npc = "call"

NextNorm == Normalize

InitNormCall == InitDb /\ InitProcs /\ InitCall

SpecNorm == InitNormCall /\ [][NextNorm]_vars


(***************************************************************************)
(* Properties.                                                             *)
(***************************************************************************)
RowsOf(rows, uid, rid) == {l \in rows : l.user_id = uid /\ l.recipe_id = rid}

\* C1: for every recipe, the stored counter likes equals the number of Like
\* rows whose recipe_id is that recipe's id.
C1_LikesEqualRowCount ==
    \A r \in DOMAIN recipes :
        recipes[r].likes = Cardinality({l \in likeRows : l.recipe_id = r})

\* the outcome of the requests of S served one after the other from db, in any order
RECURSIVE SeqOutcomes(_, _)
SeqOutcomes(db, S) ==
    IF S = {} THEN {db}
    ELSE UNION {UNION {SeqOutcomes(d, S \ {p}) :
                          d \in Toggle(users, db, procs[p].rid, procs[p].username)} :
                   p \in S}

\* what a client can observe of the likes: the counters and the rows per pair
Observed(db) ==
    [likes |-> [r \in DOMAIN db.recipes |-> db.recipes[r].likes],
     rows |-> [pr \in {<<l.user_id, l.recipe_id>> : l \in db.likeRows} |->
                  Cardinality(RowsOf(db.likeRows, pr[1], pr[2]))]]

Serializable ==
    Observed(CurrentDb) \in {Observed(d) : d \in SeqOutcomes(base, Procs)}

SamePair(p, q) == procs[p].rid = procs[q].rid /\ procs[p].username = procs[q].username

\* C2: under any interleaving of concurrent toggles of one (user, recipe) pair
\* there is never more than one Like row for the pair, and the counter ends as
\* if the toggles had been served one at a time.
C2_SamePairSerialized ==
    /\ \A l1, l2 \in likeRows :
           (l1.user_id = l2.user_id /\ l1.recipe_id = l2.recipe_id) => l1 = l2
    /\ (AllDone /\ \A p, q \in Procs : SamePair(p, q)) => Serializable

\* C3: concurrent toggles of different pairs, two users on one recipe included,
\* end in the Like rows and counters of the toggles served one after the other.
C3_DifferentPairsIndependent ==
    (AllDone /\ \A p, q \in Procs : (p # q => ~SamePair(p, q))) => Serializable

HasRow(rid, username) ==
    LikeCheck(likeRows, LikeBegin(users, recipes, rid, username).uid, rid) # {0}

\* C4: two successive toggles of one (user, recipe) pair leave the counter and
\* the existence of the pair's Like row as they were before the first.
C4_DoubleToggleRestores ==
    (last.op = "like" /\ last.resp.code = 200 /\ last.prepre.valid) =>
        /\ recipes[last.rid].likes = last.prepre.likes
        /\ HasRow(last.rid, last.data) = last.prepre.had

\* C5: every stored recipe has likes >= 0.
C5_LikesNeverNegative == \A r \in DOMAIN recipes : recipes[r].likes >= 0

\* the trimmed username of a register request names an existing user
NamesExisting(data) ==
    LET u == StripOrEmpty(Get(data, "username"))
    IN  u.ok /\ \E x \in users : x.username = u.s

NoTwoUsersShareAName == \A u1, u2 \in users : u1.username = u2.username => u1 = u2

\* C6 as stated: Register fails with Conflict whenever the trimmed username
\* already exists and leaves the users unchanged; no two users share a
\* username; a later Register never changes an existing user.
C6_RegisterConflict ==
    [][ /\ (last'.op = "register" /\ NamesExisting(last'.data)) =>
               (last'.resp = Resp(400, "User exists") /\ users' = users)
        /\ NoTwoUsersShareAName'
        /\ \A u \in users : u \in users' ]_vars

\* C6 amended: Register naming an existing trimmed username always fails and
\* leaves the users unchanged: with Conflict when the trimmed password is not
\* empty, with the validation error when the password is missing or blank, with
\* an unhandled error when the password is not a string; no two users share a
\* username; a later Register never changes an existing user.
C6_RegisterConflictAmended ==
    [][ /\ (last'.op = "register" /\ NamesExisting(last'.data)) =>
               LET pw == StripOrEmpty(Get(last'.data, "password"))
               IN  /\ users' = users
                   /\ last'.resp =
                          IF ~pw.ok THEN Resp(500, "error")
                          ELSE IF pw.s = << >> THEN Resp(400, "username and password required")
                          ELSE Resp(400, "User exists")
        /\ NoTwoUsersShareAName'
        /\ \A u \in users : u \in users' ]_vars

C6_Witness ==
    /\ last.op = "register"
    /\ last.resp = Resp(400, "User exists")
    /\ last.data.username = Str(<<" ", "a", " ">>)
    /\ \E u \in users : u.username = TA /\ u.password = <<"p">> /\ u.role = <<"u","s","e","r">>

EditableKeys == {"title", "category", "prepTime", "image", "ingredients", "steps", "rating"}

\* C7: Update keeps every field whose key is absent from the request, never
\* changes likes or author, changes no other recipe, Like row, user or comment,
\* and for a missing id answers NotFound and changes nothing.
C7_UpdateIsPartial ==
    [][ last'.op = "edit" =>
           /\ UNCHANGED <<users, likeRows, comments, assets, seqs>>
           /\ IF last'.rid \in DOMAIN recipes
              THEN /\ DOMAIN recipes' = DOMAIN recipes
                   /\ \A o \in DOMAIN recipes \ {last'.rid} : recipes'[o] = recipes[o]
                   /\ recipes'[last'.rid].likes = recipes[last'.rid].likes
                   /\ recipes'[last'.rid].author = recipes[last'.rid].author
                   /\ \A k \in EditableKeys \ DOMAIN last'.data :
                          recipes'[last'.rid][k] = recipes[last'.rid][k]
              ELSE /\ last'.resp = Resp(404, "Recipe not found")
                   /\ recipes' = recipes ]_vars

C7_Witness ==
    /\ last.op = "edit"
    /\ last.resp.code = 200
    /\ DOMAIN last.data = {"prepTime", "rating"}
    /\ last.rid = 2
    /\ recipes[2].category = <<"c">>
    /\ recipes[2].title = TB
    /\ recipes[2].author = <<"w">>
    /\ 1 \in DOMAIN recipes
    /\ recipes[1].likes = 1
    /\ likeRows # {}
    /\ comments # {}

\* the text fields of an update are strings or empty, so no other field raises
TextFieldsOk(data) ==
    \A k \in {"title", "category", "image"} \cap DOMAIN data : StripOrEmpty(data[k]).ok

Unparsable(data, k) == k \in DOMAIN data /\ ~PyInt(data[k]).ok

\* C8 as stated: a present prepTime that is not an integer, null and the empty
\* string included, keeps the prior prepTime; such a rating resets rating to 0;
\* the request does not fail.
C8_UnparsableNumbers ==
    [][ (last'.op = "edit" /\ last'.rid \in DOMAIN recipes /\ TextFieldsOk(last'.data)) =>
           /\ (Unparsable(last'.data, "prepTime") \/ Unparsable(last'.data, "rating")) =>
                  last'.resp.code = 200
           /\ Unparsable(last'.data, "prepTime") =>
                  recipes'[last'.rid].prepTime = recipes[last'.rid].prepTime
           /\ Unparsable(last'.data, "rating") => recipes'[last'.rid].rating = 0 ]_vars

\* C8 amended: a present prepTime that is not empty and that int() rejects keeps
\* the prior prepTime, while null, the empty string and every other empty value
\* set prepTime to 0; a rating that is not an integer, empty values included,
\* sets rating to 0; the request does not fail on account of either.
C8_UnparsableNumbersAmended ==
    [][ (last'.op = "edit" /\ last'.rid \in DOMAIN recipes /\ TextFieldsOk(last'.data)) =>
           /\ (Unparsable(last'.data, "prepTime") \/ Unparsable(last'.data, "rating")) =>
                  last'.resp.code = 200
           /\ Unparsable(last'.data, "prepTime") =>
                  recipes'[last'.rid].prepTime =
                      IF Truthy(last'.data.prepTime) THEN recipes[last'.rid].prepTime ELSE 0
           /\ Unparsable(last'.data, "rating") => recipes'[last'.rid].rating = 0 ]_vars

C8_Witness ==
    /\ last.op = "edit"
    /\ last.resp.code = 200
    /\ last.data = [prepTime |-> Str(<<"x">>), rating |-> Str(<<"x">>)]
    /\ recipes[last.rid].prepTime = 3
    /\ recipes[last.rid].rating = 0
    /\ recipes[last.rid].category = <<"c">>

\* the canonical list of a logical list: its elements trimmed, the empty ones
\* dropped, in their order
Canon(L) == SelectSeq([i \in 1..Len(L) |-> Strip(L[i])], LAMBDA e : e # << >>)

Trimmed(out) == \A i \in 1..Len(out) : out[i] # << >> /\ Strip(out[i]) = out[i]

ListKinds == {"native", "json", "comma", "newline"}

\* C9 as stated: the normalizer never raises, returns trimmed non-empty elements
\* in order, and returns the same list for the native, JSON-array, comma-joined
\* and newline-joined representation of a logical list of strings.
C9_Normalizer ==
    npc = "done" =>
        /\ ~nout.raised
        /\ Trimmed(nout.out)
        /\ nin.kind \in ListKinds => nout.out = Canon(nin.logical)

\* a logical list the delimited forms can carry: no element holds a comma or a
\* newline, and the joined text is not itself a JSON array
Delimitable(L, text) ==
    /\ \A i \in 1..Len(L) : ~HasChar(L[i], ",") /\ ~HasChar(L[i], NL)
    /\ LET parsed == json_loads(Strip(text)) IN ~(parsed.ok /\ parsed.val.t = "list")

\* C9 amended: the normalizer never raises and returns trimmed non-empty
\* elements in order; the native list and the JSON-array string of a logical
\* list give its canonical list, and so do the comma-joined and newline-joined
\* strings when no element holds a comma or a newline and the joined text is not
\* itself a JSON array.
C9_NormalizerAmended ==
    npc = "done" =>
        /\ ~nout.raised
        /\ Trimmed(nout.out)
        /\ nin.kind \in {"native", "json"} => nout.out = Canon(nin.logical)
        /\ (nin.kind \in {"comma", "newline"} /\ Delimitable(nin.logical, nin.value.s)) =>
               nout.out = Canon(nin.logical)

C9_Witness ==
    /\ npc = "done"
    /\ nin.kind = "comma"
    /\ nin.logical = <<<<" ", "a">>, <<"[", "]">>>>
    /\ nin.value = Str(<<" ", "a", ",", "[", "]">>)
    /\ nout.out = <<<<"a">>, <<"[", "]">>>>

\* C10: Delete of an existing recipe removes the record and, when the image
\* starts with /uploads/, the stored asset, and otherwise leaves the assets
\* alone; Delete of a missing id answers NotFound and changes nothing.
C10_DeleteRemoves ==
    [][ last'.op = "delete" =>
           IF last'.rid \in DOMAIN recipes
           THEN /\ last'.rid \notin DOMAIN recipes'
                /\ LET image == recipes[last'.rid].image
                   IN  IF StartsWith(image, UPLOADS)
                       THEN SubSeq(image, Len(UPLOADS) + 1, Len(image)) \notin assets'
                       ELSE assets' = assets
           ELSE /\ last'.resp = Resp(404, "Recipe not found")
                /\ UNCHANGED <<users, recipes, likeRows, comments, assets>> ]_vars

====
